---- MODULE Spec2Model ----
(***************************************************************************)
(* Model of the PDF generation service (src/main.py): the POST             *)
(* /generate-pdf handler, its totals computation, its amount-in-words      *)
(* conversion and its template resolution.                                 *)
(*                                                                         *)
(* Numbers.  The program computes with binary floating point.  The model   *)
(* computes exactly, in fixed point: a quantite is a whole number of       *)
(* tenths, a prixUnitaire a whole number of centimes, a tauxTVA a whole    *)
(* number of percent, and every amount the handler derives from them is a  *)
(* whole number of units of 1/100000 dinar (Scale units per dinar).  The   *)
(* floating point error of the program's sums is many orders of magnitude  *)
(* below one unit, so it can change a rounding only when the exact value   *)
(* lies exactly half way between two results; on such a tie the model      *)
(* allows both results.  Amounts are non-negative and their integer part   *)
(* stays below 10000.                                                      *)
(*                                                                         *)
(* Strings are TLA+ strings; formatting builds them digit by digit and     *)
(* parsing reads them character by character.  They are written in ASCII:  *)
(* an accented letter of the program's text is written without its accent  *)
(* (zero for the French word with its acute accent), in literals and in    *)
(* the words of num2words alike.                                           *)
(***************************************************************************)
EXTENDS Integers, Sequences, FiniteSets, TLC

VARIABLES
    request,          \* the GeneratePdfRequest as received (type not yet validated)
    files,            \* template files present in templates_dir
    pc,               \* position of the request in the framework / handler
    stages,           \* the handler steps executed so far, in order
    template,         \* name of the template loaded by env.get_template
    totals,           \* local `totals` of generate_pdf
    total_ttc_value,  \* local `total_ttc_value`
    centimes,         \* local `centimes` of number_to_french_words
    total_ttc_words,  \* local `total_ttc_words`
    context,          \* the template context
    html_content,     \* result of template.render
    pdf_bytes,        \* result of write_pdf
    exc,              \* the exception caught by the outer try, if any
    response,         \* the HTTP response sent
    sent              \* number of responses sent for the request

vars == <<request, files, pc, stages, template, totals, total_ttc_value, centimes,
          total_ttc_words, context, html_content, pdf_bytes, exc, response, sent>>

\* Python's None, for every Optional value and every local not yet assigned.
None == [none |-> TRUE]

\* A local string not yet assigned.
Unset == "<unset>"

-----------------------------------------------------------------------------
(* Bounds *)

\* Longest product list of a request.
MaxProducts == 3

-----------------------------------------------------------------------------
(* Decimal digits and strings *)

Digits == "0123456789"

Digit(d) == SubSeq(Digits, d + 1, d + 1)

IsDigit(ch) == \E d \in 0..9 : Digit(d) = ch

DigitVal(ch) == CHOOSE d \in 0..9 : Digit(d) = ch

CharAt(s, i) == SubSeq(s, i, i)

RECURSIVE IntStr(_)
\* str(n) of a non-negative integer
IntStr(n) == IF n < 10 THEN Digit(n) ELSE IntStr(n \div 10) \o Digit(n % 10)

AllDigits(s) == \A i \in 1..Len(s) : IsDigit(CharAt(s, i))

RECURSIVE DigitsVal(_)
DigitsVal(s) ==
    IF s = "" THEN 0
    ELSE DigitsVal(SubSeq(s, 1, Len(s) - 1)) * 10 + DigitVal(CharAt(s, Len(s)))

RECURSIVE Pow10(_)
Pow10(k) == IF k = 0 THEN 1 ELSE 10 * Pow10(k - 1)

-----------------------------------------------------------------------------
(* Python values: floats and their conversions *)

\* Decimal places of a unit: the two of a centime and three below them.
FracDigits == 2 + 3

\* Units per dinar.
Scale == Pow10(FracDigits)

\* Units per centime.
Cent == Scale \div 100

\* A finite non-negative float, as its exact number of units.
Float(u) == [float |-> u]

\* float("inf")
Infinity == [inf |-> TRUE]

\* The int 0 assigned when the amount does not parse.
IntZero == [int |-> 0]

\* The ValueError float() raises.
ValueError == [error |-> "ValueError"]

IsFinite(n) == n # None /\ ("float" \in DOMAIN n \/ "int" \in DOMAIN n)

\* The exact value of a finite number, in units.
Units(n) == IF "int" \in DOMAIN n THEN n.int * Scale ELSE n.float

\* The integers nearest to x / step: one, or two when x / step is half way.
RoundNearest(x, step) ==
    LET q == x \div step
        r == x % step
    IN  IF 2 * r < step THEN {q}
        ELSE IF 2 * r > step THEN {q + 1}
        ELSE {q, q + 1}

\* "%.2f" of a number of centimes
TwoDecimals(c) == IntStr(c \div 100) \o "." \o Digit((c % 100) \div 10) \o Digit(c % 10)

\* f"{x:.2f}" for x units: the strings the format can produce.
Format2f(x) == { TwoDecimals(c) : c \in RoundNearest(x, Cent) }

\* The positions of "." in s.
Dots(s) == { i \in 1..Len(s) : CharAt(s, i) = "." }

\* float(s) for the strings the model supplies: decimal digits with at most
\* one ".", or "inf"; anything else raises ValueError.
ParseFloat(s) ==
    IF s = "inf" THEN Infinity
    ELSE IF Dots(s) = {} THEN
        IF s # "" /\ AllDigits(s) THEN Float(DigitsVal(s) * Scale) ELSE ValueError
    ELSE IF Cardinality(Dots(s)) > 1 THEN ValueError
    ELSE LET i  == CHOOSE j \in Dots(s) : TRUE
             ip == SubSeq(s, 1, i - 1)
             fp == SubSeq(s, i + 1, Len(s))
         IN  IF AllDigits(ip) /\ AllDigits(fp) /\ Len(ip) + Len(fp) > 0
                /\ Len(fp) <= FracDigits
             THEN Float(DigitsVal(ip) * Scale
                        + DigitsVal(fp) * Pow10(FracDigits - Len(fp)))
             ELSE ValueError

\* str(n) of a float that is not finite.
StrOf(n) == IF "inf" \in DOMAIN n THEN "inf" ELSE "nan"

-----------------------------------------------------------------------------
(* num2words(k, lang='fr') for 0 <= k < 10000 *)

UnitWords ==
    << "un", "deux", "trois", "quatre", "cinq", "six", "sept", "huit", "neuf",
       "dix", "onze", "douze", "treize", "quatorze", "quinze", "seize" >>

TensWords == << "dix", "vingt", "trente", "quarante", "cinquante", "soixante" >>

RECURSIVE Under100(_)
Under100(k) ==
    LET t == k \div 10
        u == k % 10
    IN  IF k <= 16 THEN UnitWords[k]
        ELSE IF k < 20 THEN "dix-" \o UnitWords[u]
        ELSE IF t <= 6 THEN
            IF u = 0 THEN TensWords[t]
            ELSE IF u = 1 THEN TensWords[t] \o " et un"
            ELSE TensWords[t] \o "-" \o UnitWords[u]
        ELSE IF t = 7 THEN
            IF u = 1 THEN "soixante et onze" ELSE "soixante-" \o Under100(k - 60)
        ELSE IF k = 80 THEN "quatre-vingts"
        ELSE "quatre-vingt-" \o Under100(k - 80)

Under1000(k) ==
    LET h == k \div 100
        r == k % 100
    IN  IF h = 0 THEN Under100(r)
        ELSE IF h = 1 THEN (IF r = 0 THEN "cent" ELSE "cent " \o Under100(r))
        ELSE IF r = 0 THEN UnitWords[h] \o " cents"
        ELSE UnitWords[h] \o " cent " \o Under100(r)

num2words(k) ==
    LET m == k \div 1000
        r == k % 1000
    IN  IF k = 0 THEN "zero"
        ELSE IF m = 0 THEN Under1000(r)
        ELSE (IF m = 1 THEN "mille" ELSE UnitWords[m] \o " mille")
             \o (IF r = 0 THEN "" ELSE " " \o Under1000(r))

-----------------------------------------------------------------------------
(* number_to_french_words *)

\* int(n): the integer part of a finite non-negative number.
Entier(n) == Units(n) \div Scale

\* int(n) raises OverflowError on an infinite float.
IntRaises(n) == ~IsFinite(n)

\* Mutant of DinarPlural: zero is not pluralized.
DinarPluralAboveOne(entier) == entier > 1

\* `entier > 1 or entier == 0`
DinarPlural(entier) == entier > 1 \/ entier = 0

\* Mutant of HasCentimes: `centimes >= 0`.
HasCentimesOrZero(c) == c >= 0

\* `centimes > 0`
HasCentimes(c) == c > 0

\* `centimes > 1`
CentimePlural(c) == c > 1

\* The phrase built from an integer part and a number of centimes.
FrenchWords(entier, c) ==
    LET words == num2words(entier) \o " dinar"
        dinars == IF DinarPlural(entier) THEN words \o "s" ELSE words
    IN  IF HasCentimes(c)
        THEN LET w == dinars \o " et " \o num2words(c) \o " centime"
             IN  IF CentimePlural(c) THEN w \o "s" ELSE w
        ELSE dinars

\* The outcomes of number_to_french_words(n): the string returned and the
\* value of its local `centimes` (None when int(n) raised before it was
\* assigned).  round() has two outcomes when the fraction is half way.
number_to_french_words(n) ==
    IF IntRaises(n)
    THEN { [words |-> StrOf(n), centimes |-> None] }
    ELSE { [words |-> FrenchWords(Entier(n), c), centimes |-> [int |-> c]] :
              c \in RoundNearest(Units(n) - Entier(n) * Scale, Cent) }

-----------------------------------------------------------------------------
(* Totals *)

\* `x or 0` for an Optional[float]
OrZero(x) == IF x = None THEN 0 ELSE x.float

\* One tenth times one centime, in units.
TenthCentime == Scale \div (10 * 100)

\* One tenth times one centime times one percent, in units: the `/ 100`.
TenthCentimePercent == TenthCentime \div 100

\* p.quantite * (p.prixUnitaire or 0), in units
LineHT(p) == p.quantite * OrZero(p.prixUnitaire) * TenthCentime

\* Mutant of LineTVA: the tax-inclusive line amount of calculate_line_total,
\* subtotal * (1 + tauxTVA / 100), summed in place of the tax.
LineTVAGross(p) ==
    p.quantite * OrZero(p.prixUnitaire) * (100 + OrZero(p.tauxTVA)) * TenthCentimePercent

\* p.quantite * (p.prixUnitaire or 0) * (p.tauxTVA or 0) / 100, in units
LineTVA(p) ==
    p.quantite * OrZero(p.prixUnitaire) * OrZero(p.tauxTVA) * TenthCentimePercent

RECURSIVE total_ht(_)
total_ht(products) ==
    IF products = <<>> THEN 0
    ELSE total_ht(SubSeq(products, 1, Len(products) - 1))
         + LineHT(products[Len(products)])

RECURSIVE total_tva(_)
total_tva(products) ==
    IF products = <<>> THEN 0
    ELSE total_tva(SubSeq(products, 1, Len(products) - 1))
         + LineTVA(products[Len(products)])

total_ttc(products) == total_ht(products) + total_tva(products)

\* Mutant of NeedsTotals: `not totals`, an empty list is summed too.
NeedsTotalsWhenAbsent(req) == req.totals = None

\* Mutant of NeedsTotals: `request.products`, supplied Totals are recomputed.
NeedsTotalsWhenProducts(req) == req.products # <<>>

\* `not totals and request.products`
NeedsTotals(req) == req.totals = None /\ req.products # <<>>

\* The Totals the handler can build from the products.
ComputedTotals(products) ==
    { [totalHT |-> h, totalTVA |-> v, totalTTC |-> t] :
        h \in Format2f(total_ht(products)),
        v \in Format2f(total_tva(products)),
        t \in Format2f(total_ttc(products)) }

\* Mutant of TotalTtcValue: the fall back value is 1.
TotalTtcValueOne(t) ==
    LET v == ParseFloat(t.totalTTC)
    IN  IF v = ValueError THEN [int |-> 1] ELSE v

\* float(totals.totalTTC), or 0 when it raises.
TotalTtcValue(t) ==
    LET v == ParseFloat(t.totalTTC)
    IN  IF v = ValueError THEN IntZero ELSE v

-----------------------------------------------------------------------------
(* Document types and templates *)

DocumentTypes ==
    { "bon-livraison", "bon-commande", "facture", "facture-proforma", "proforma",
      "bon-retour", "facture-avoir", "bon-versement", "bon-reception" }

get_document_title(doc_type) ==
    CASE doc_type = "bon-livraison"    -> "BON DE LIVRAISON"
      [] doc_type = "bon-commande"     -> "BON DE COMMANDE"
      [] doc_type = "facture"          -> "FACTURE"
      [] doc_type = "facture-proforma" -> "FACTURE PROFORMA"
      [] doc_type = "proforma"         -> "FACTURE PROFORMA"
      [] doc_type = "bon-retour"       -> "BON DE RETOUR"
      [] doc_type = "facture-avoir"    -> "FACTURE AVOIR"
      [] doc_type = "bon-versement"    -> "BON DE VERSEMENT"
      [] doc_type = "bon-reception"    -> "BON DE RECEPTION"
      [] OTHER                         -> "DOCUMENT"

TemplateName(doc_type) == doc_type \o ".html"

DefaultTemplate == "bon-livraison.html"

\* No template could be loaded.
TemplateNotFound == "<TemplateNotFound>"

\* Mutant of ResolveTemplate: no fall back to the default template.
ResolveTemplateNoFallback(doc_type, fs) ==
    IF TemplateName(doc_type) \in fs THEN TemplateName(doc_type) ELSE TemplateNotFound

\* The inner try/except around env.get_template.
ResolveTemplate(doc_type, fs) ==
    IF TemplateName(doc_type) \in fs THEN TemplateName(doc_type)
    ELSE IF DefaultTemplate \in fs THEN DefaultTemplate
    ELSE TemplateNotFound

\* Mutant of ValidType: `type: str`, any value passes.
ValidTypeAny(doc_type) == doc_type = doc_type

\* Schema validation of the `type` field.
ValidType(doc_type) == doc_type \in DocumentTypes

-----------------------------------------------------------------------------
(* Requests *)

Product(designation, quantite, prixUnitaire, tauxTVA) ==
    [designation |-> designation, quantite |-> quantite, unite |-> "piece",
     prixUnitaire |-> prixUnitaire, tauxTVA |-> tauxTVA]

\* Line items: quantite in tenths, prixUnitaire in centimes, tauxTVA in percent.
Catalogue ==
    { Product("Produit A", 100, Float(10050), Float(19)),  \* 10 x 100.50 at 19 %
      Product("Produit B", 7, Float(2), Float(19)),        \* 0.7 x 0.02 at 19 %
      Product("Produit C", 20, None, Float(19)),           \* no unit price
      Product("Produit D", 30, Float(1240), None) }        \* no tax rate

ProductLists == UNION { [1..n -> Catalogue] : n \in 0..MaxProducts }

\* totalTTC strings a caller supplies: well-formed amounts (canonical or
\* not), an infinite one, and malformed ones.
SuppliedTTC ==
    { "1195.95", "12.5", "1", "0", "0.01", "1.01", "2.675", "1.999", "71.80",
      "inf", "abc", "12,50", "" }

SuppliedTotals ==
    { [totalHT |-> h, totalTVA |-> "190.95", totalTTC |-> t] :
        h \in {"1005.00", "10"}, t \in SuppliedTTC }

\* The `type` values sent: two recognized ones and one that is not.
RequestTypes == { "facture", "bon-livraison", "devis" }

Numeros == { "BL-2024-001", "FAC-7" }

Requests ==
    [ type : RequestTypes,
      companyInfo : { "ABC Company SARL" },
      clientInfo : { "Client XYZ" },
      documentInfo : [ numero : Numeros, date : { "2024-01-15" } ],
      products : ProductLists,
      totals : {None} \cup SuppliedTotals,
      logoUrl : { None } ]

\* The template files a deployment may hold.
TemplateFiles == { "facture.html", DefaultTemplate }

-----------------------------------------------------------------------------
(* Responses *)

PdfResponse(content, numero) ==
    [status |-> 200, content |-> content, media_type |-> "application/pdf",
     disposition |-> "attachment; filename=" \o numero \o ".pdf"]

\* Mutant of ErrorResponse: the failure carries the markup rendered so far.
ErrorResponsePartial(message) ==
    [status |-> 500, detail |-> "Error generating PDF: " \o message,
     content |-> html_content]

\* HTTPException(status_code=500, detail=f"Error generating PDF: {str(e)}")
ErrorResponse(message) ==
    [status |-> 500, detail |-> "Error generating PDF: " \o message]

\* The framework's answer to a body that does not match GeneratePdfRequest.
ValidationErrorResponse ==
    [status |-> 422, detail |-> "type: Input should be one of the document types"]

A4Css == "@page { size: A4; margin: 20mm 15mm 20mm 15mm; }"

\* Failures of the external renderers, by their messages.
RenderErrors == { "UndefinedError" }

PdfErrors == { "write_pdf failed" }

-----------------------------------------------------------------------------
(* The state machine *)

Init ==
    /\ request \in Requests
    /\ files \in SUBSET TemplateFiles
    /\ pc = "received"
    /\ stages = <<>>
    /\ template = Unset
    /\ totals = None
    /\ total_ttc_value = None
    /\ centimes = None
    /\ total_ttc_words = Unset
    /\ context = None
    /\ html_content = None
    /\ pdf_bytes = None
    /\ exc = None
    /\ response = None
    /\ sent = 0

\* The framework validates the body against GeneratePdfRequest before it
\* calls generate_pdf.
ValidateRequest ==
    /\ pc = "received"
    /\ IF ValidType(request.type)
       THEN /\ pc' = "get_template"
            /\ UNCHANGED <<response, sent>>
       ELSE /\ pc' = "done"
            /\ response' = ValidationErrorResponse
            /\ sent' = sent + 1
    /\ UNCHANGED <<request, files, stages, template, totals, total_ttc_value,
                   centimes, total_ttc_words, context, html_content, pdf_bytes, exc>>

\* template = env.get_template(...), with the fall back to the default.
GetTemplate ==
    /\ pc = "get_template"
    /\ stages' = Append(stages, "get_template")
    /\ LET t == ResolveTemplate(request.type, files)
       IN  IF t = TemplateNotFound
           THEN /\ exc' = [stage |-> "get_template", message |-> DefaultTemplate]
                /\ pc' = "except"
                /\ UNCHANGED template
           ELSE /\ template' = t
                /\ pc' = "totals"
                /\ UNCHANGED exc
    /\ UNCHANGED <<request, files, totals, total_ttc_value, centimes,
                   total_ttc_words, context, html_content, pdf_bytes, response, sent>>

\* totals = request.totals, computed from the products when absent.
CalculateTotals ==
    /\ pc = "totals"
    /\ IF NeedsTotals(request)
       THEN /\ totals' \in ComputedTotals(request.products)
            /\ stages' = Append(stages, "compute_totals")
       ELSE /\ totals' = request.totals
            /\ UNCHANGED stages
    /\ pc' = "words"
    /\ UNCHANGED <<request, files, template, total_ttc_value, centimes,
                   total_ttc_words, context, html_content, pdf_bytes, exc,
                   response, sent>>

\* total_ttc_words, from totals.totalTTC or the literal "zero".
PrepareWords ==
    /\ pc = "words"
    /\ stages' = Append(stages, "words")
    /\ IF totals # None
       THEN /\ total_ttc_value' = TotalTtcValue(totals)
            /\ \E r \in number_to_french_words(TotalTtcValue(totals)) :
                  /\ total_ttc_words' = r.words
                  /\ centimes' = r.centimes
       ELSE /\ total_ttc_words' = "zero"
            /\ UNCHANGED <<total_ttc_value, centimes>>
    /\ pc' = "render"
    /\ UNCHANGED <<request, files, template, totals, context, html_content,
                   pdf_bytes, exc, response, sent>>

\* The context bound into the template.
Context ==
    [document_title |-> get_document_title(request.type),
     company |-> request.companyInfo,
     client |-> request.clientInfo,
     document |-> request.documentInfo,
     products |-> request.products,
     totals |-> totals,
     type |-> request.type,
     generated_date |-> "now",
     total_ttc_words |-> total_ttc_words,
     logo_url |-> request.logoUrl]

\* html_content = template.render(**context)
RenderHtml ==
    /\ pc = "render"
    /\ stages' = Append(stages, "render")
    /\ context' = Context
    /\ \/ /\ html_content' = [template |-> template, context |-> Context]
          /\ pc' = "write_pdf"
          /\ UNCHANGED exc
       \/ /\ \E m \in RenderErrors : exc' = [stage |-> "render", message |-> m]
          /\ pc' = "except"
          /\ UNCHANGED html_content
    /\ UNCHANGED <<request, files, template, totals, total_ttc_value, centimes,
                   total_ttc_words, pdf_bytes, response, sent>>

\* pdf_bytes = HTML(string=html_content).write_pdf(stylesheets=[a4_css])
WritePdf ==
    /\ pc = "write_pdf"
    /\ stages' = Append(stages, "write_pdf")
    /\ \/ /\ pdf_bytes' = [html |-> html_content, stylesheet |-> A4Css]
          /\ pc' = "respond"
          /\ UNCHANGED exc
       \/ /\ \E m \in PdfErrors : exc' = [stage |-> "write_pdf", message |-> m]
          /\ pc' = "except"
          /\ UNCHANGED pdf_bytes
    /\ UNCHANGED <<request, files, template, totals, total_ttc_value, centimes,
                   total_ttc_words, context, html_content, response, sent>>

\* return Response(content=pdf_bytes, ...)
Respond ==
    /\ pc = "respond"
    /\ response' = PdfResponse(pdf_bytes, request.documentInfo.numero)
    /\ sent' = sent + 1
    /\ pc' = "done"
    /\ UNCHANGED <<request, files, stages, template, totals, total_ttc_value,
                   centimes, total_ttc_words, context, html_content, pdf_bytes, exc>>

\* except Exception as e: raise HTTPException(...)
HandleException ==
    /\ pc = "except"
    /\ response' = ErrorResponse(exc.message)
    /\ sent' = sent + 1
    /\ pc' = "done"
    /\ UNCHANGED <<request, files, stages, template, totals, total_ttc_value,
                   centimes, total_ttc_words, context, html_content, pdf_bytes, exc>>

Next ==
    \/ ValidateRequest
    \/ GetTemplate
    \/ CalculateTotals
    \/ PrepareWords
    \/ RenderHtml
    \/ WritePdf
    \/ Respond
    \/ HandleException

Spec == Init /\ [][Next]_vars

-----------------------------------------------------------------------------
(* Vocabulary of the properties *)

StartsWith(s, p) == Len(s) >= Len(p) /\ SubSeq(s, 1, Len(p)) = p

\* s with its prefix p removed
After(s, p) == SubSeq(s, Len(p) + 1, Len(s))

EndsWith(s, suffix) ==
    Len(s) >= Len(suffix) /\ SubSeq(s, Len(s) - Len(suffix) + 1, Len(s)) = suffix

Abs(x) == IF x < 0 THEN -x ELSE x

RECURSIVE SeqSum(_)
SeqSum(xs) == IF xs = <<>> THEN 0 ELSE Head(xs) + SeqSum(Tail(xs))

\* A digit string, a point, two digits; no leading zero before other digits.
IsTwoDecimalString(s) ==
    /\ Len(s) >= 4
    /\ CharAt(s, Len(s) - 2) = "."
    /\ AllDigits(SubSeq(s, 1, Len(s) - 3))
    /\ AllDigits(SubSeq(s, Len(s) - 1, Len(s)))
    /\ (Len(s) > 4 => CharAt(s, 1) # "0")

\* The centimes a two-decimal string denotes.
CentimesOf(s) ==
    DigitsVal(SubSeq(s, 1, Len(s) - 3)) * 100 + DigitsVal(SubSeq(s, Len(s) - 1, Len(s)))

Price(p) == IF p.prixUnitaire = None THEN 0 ELSE p.prixUnitaire.float

Rate(p) == IF p.tauxTVA = None THEN 0 ELSE p.tauxTVA.float

\* Sum of quantite x prixUnitaire, in thousandths of a dinar.
SumHT(ps) == SeqSum([i \in 1..Len(ps) |-> ps[i].quantite * Price(ps[i])])

\* Sum of quantite x prixUnitaire x tauxTVA / 100, in 1/100000 dinar.
SumTVA(ps) == SeqSum([i \in 1..Len(ps) |-> ps[i].quantite * Price(ps[i]) * Rate(ps[i])])

\* s is a two-decimal string and no other two-decimal amount is nearer to
\* x / per dinars.
IsRounded(s, x, per) ==
    /\ IsTwoDecimalString(s)
    /\ 2 * Abs(CentimesOf(s) * (per \div 100) - x) <= per \div 100

\* The handler computed the totals of a non-empty list and bound them.
ComputedCase ==
    request.totals = None /\ request.products # <<>> /\ context # None

\* The amount whose words were produced was a finite number.
WordsOfNumber == total_ttc_words # Unset /\ IsFinite(total_ttc_value)

\* The caller supplied a totalTTC that float() rejects.
MalformedCase ==
    /\ request.totals # None
    /\ ParseFloat(request.totals.totalTTC) = ValueError

FailedAt(stage) == exc # None /\ exc.stage = stage

-----------------------------------------------------------------------------
(* Properties *)

\* C1: with no Totals supplied and a non-empty product list, the Totals in
\* the context are the two-decimal renderings of sum(quantite x prixUnitaire),
\* sum(quantite x prixUnitaire x tauxTVA / 100) and their sum; a product
\* without prixUnitaire adds nothing, one without tauxTVA adds no tax.
C1_ComputedTotals ==
    ComputedCase =>
        LET ps == request.products
            t  == context.totals
        IN  /\ t # None
            /\ IsRounded(t.totalHT, SumHT(ps), 1000)
            /\ IsRounded(t.totalTVA, SumTVA(ps), 100000)
            /\ IsRounded(t.totalTTC, 100 * SumHT(ps) + SumTVA(ps), 100000)
            /\ (\A i \in 1..Len(ps) : ps[i].prixUnitaire = None)
                  => t = [totalHT |-> "0.00", totalTVA |-> "0.00", totalTTC |-> "0.00"]
            /\ (\A i \in 1..Len(ps) : ps[i].tauxTVA = None)
                  => t.totalTVA = "0.00" /\ t.totalTTC = t.totalHT

\* The scenario 10 x 100.50 at 19 %, rendered.
C1_Witness ==
    /\ ComputedCase
    /\ Len(request.products) = 1
    /\ request.products[1].designation = "Produit A"
    /\ context.totals =
          [totalHT |-> "1005.00", totalTVA |-> "190.95", totalTTC |-> "1195.95"]

C3_SuppliedTotalsVerbatim ==
    request.totals # None =>
        /\ \A i \in 1..Len(stages) : stages[i] # "compute_totals"
        /\ (Len(stages) >= 2 => totals = request.totals)
        /\ (context # None => context.totals = request.totals)

\* Supplied Totals that are neither two-decimal nor those of the products.
C3_Witness ==
    /\ request.totals # None
    /\ request.totals.totalTTC = "12.5"
    /\ request.totals.totalHT = "10"
    /\ request.products # <<>>
    /\ context # None
    /\ context.totals = request.totals

\* C4: a validated request ends with exactly one response: the complete PDF
\* with its Content-Disposition, or, whenever an exception was raised, the
\* 500 whose detail embeds the message and which carries no document output.
C4_OneResponse ==
    /\ sent <= 1
    /\ (exc # None => pc \in {"except", "done"})
    /\ (FailedAt("get_template") \/ FailedAt("render")) => pdf_bytes = None
    /\ (pc = "done" /\ request.type \in DocumentTypes) =>
          /\ sent = 1
          /\ IF exc = None
             THEN /\ response =
                        PdfResponse(pdf_bytes, request.documentInfo.numero)
                  /\ response.disposition =
                        "attachment; filename=" \o request.documentInfo.numero \o ".pdf"
                  /\ pdf_bytes = [html |-> [template |-> template, context |-> context],
                                  stylesheet |-> A4Css]
             ELSE /\ DOMAIN response = {"status", "detail"}
                  /\ response.status = 500
                  /\ EndsWith(response.detail, exc.message)

\* A failure of the PDF conversion, after the markup was rendered.
C4_Witness ==
    /\ pc = "done"
    /\ FailedAt("write_pdf")
    /\ html_content # None
    /\ response.status = 500

\* C5 as stated: a malformed totalTTC does not fail the request and the
\* words-amount is the supplied text.
C5_MalformedKeepsText ==
    (MalformedCase /\ total_ttc_words # Unset) =>
        /\ ~FailedAt("words")
        /\ total_ttc_words = request.totals.totalTTC

\* C5 amended: a malformed totalTTC does not fail the request, the amount
\* converted is 0 and the words-amount is the phrase for zero, "zero dinars";
\* the supplied text stays in totals.totalTTC only.
C5_MalformedGivesZero ==
    (MalformedCase /\ total_ttc_words # Unset) =>
        /\ ~FailedAt("words")
        /\ pc # "words"
        /\ total_ttc_value = IntZero
        /\ total_ttc_words = "zero dinars"
        /\ (context # None =>
              /\ context.total_ttc_words = "zero dinars"
              /\ context.totals.totalTTC = request.totals.totalTTC)

C5_Witness ==
    /\ MalformedCase
    /\ request.totals.totalTTC = "12,50"
    /\ context # None
    /\ context.total_ttc_words = "zero dinars"

\* C6: for a recognized type, <type>.html is loaded when it is there, the
\* default template when it is not, and the request fails at template
\* resolution exactly when neither is there.
C6_TemplateFallback ==
    (request.type \in DocumentTypes /\ stages # <<>>) =>
        LET own == TemplateName(request.type)
        IN  /\ own \in files => template = own /\ ~FailedAt("get_template")
            /\ (own \notin files /\ DefaultTemplate \in files) =>
                  template = DefaultTemplate /\ ~FailedAt("get_template")
            /\ FailedAt("get_template") <=> (DefaultTemplate \notin files /\ own \notin files)
            /\ html_content # None => html_content.template = template

\* facture.html is missing and the default is rendered in its place.
C6_Witness ==
    /\ request.type = "facture"
    /\ files = {DefaultTemplate}
    /\ html_content # None
    /\ html_content.template = DefaultTemplate
    /\ exc = None

\* C7: a request whose type is not recognized is answered by the validation
\* failure and no handler step ever runs for it.
C7_RejectedBeforeProcessing ==
    request.type \notin DocumentTypes =>
        /\ pc \in {"received", "done"}
        /\ stages = <<>>
        /\ template = Unset
        /\ totals = None
        /\ total_ttc_words = Unset
        /\ context = None
        /\ html_content = None
        /\ pdf_bytes = None
        /\ (pc = "done" => response = ValidationErrorResponse /\ sent = 1)

C7_Witness ==
    /\ request.type = "devis"
    /\ pc = "done"
    /\ response.status = 422

\* C8: the words of a non-negative amount begin with the words of its integer
\* part, then "dinar" when the integer part is 1 and "dinars" otherwise.
C8_DinarPlural ==
    WordsOfNumber =>
        LET e      == Units(total_ttc_value) \div Scale
            prefix == num2words(e) \o (IF e = 1 THEN " dinar" ELSE " dinars")
        IN  /\ StartsWith(total_ttc_words, prefix)
            /\ LET rest == After(total_ttc_words, prefix)
               IN  rest = "" \/ StartsWith(rest, " et ")

C8_Witness ==
    /\ WordsOfNumber
    /\ Units(total_ttc_value) = Scale + Cent
    /\ total_ttc_words = "un dinar et un centime"

\* C9: with cents the fraction x 100 rounded to the nearest integer, the
\* words end with " et <cents> centime" ("centimes" unless cents is 1) when
\* cents > 0, and right after "dinar[s]" when cents = 0.
C9_CentimesPart ==
    (WordsOfNumber /\ centimes # None) =>
        LET c    == centimes.int
            frac == Units(total_ttc_value) % Scale
        IN  /\ 2 * Abs(c * Cent - frac) <= Cent
            /\ c > 0 =>
                  EndsWith(total_ttc_words,
                           " et " \o num2words(c)
                           \o (IF c = 1 THEN " centime" ELSE " centimes"))
            /\ c = 0 =>
                  \/ EndsWith(total_ttc_words, " dinar")
                  \/ EndsWith(total_ttc_words, " dinars")

C9_Witness ==
    /\ WordsOfNumber
    /\ centimes = [int |-> 1]
    /\ total_ttc_words = "zero dinars et un centime"

\* C10: the computed two-decimal strings add up: the displayed totalTTC is
\* the displayed totalHT plus the displayed totalTVA.
C10_DisplayedTotalsAddUp ==
    ComputedCase =>
        CentimesOf(context.totals.totalTTC)
            = CentimesOf(context.totals.totalHT) + CentimesOf(context.totals.totalTVA)

====
